---- MODULE Spec2Model ----
(***************************************************************************)
(* Fixed-width integer polynomial integration sketches (ESP32 / Arduino).  *)
(*                                                                         *)
(* The sketches keep five uint32_t coefficients and two uint32_t bounds at *)
(* module level, and integrate f(x) = a x^4 + b x^3 + c x^2 + d x + e by   *)
(* evaluating an antiderivative at both bounds.  Every product is formed   *)
(* by multiplyNLFSR, a shift-and-accumulate loop.  Two engines exist:      *)
(*   "add"  accumulates with +=, folds terms with +, divides the product,  *)
(*          and subtracts the two bound evaluations;                       *)
(*   "xor"  accumulates with ^=, folds terms with ^, divides the bare      *)
(*          coefficient first, and XORs the two bound evaluations.         *)
(* A third sketch, "shift", XORs successive shifts of the coefficient and  *)
(* multiplies that register by x with the machine's `*`.                   *)
(*                                                                         *)
(* A uint32_t is the record [hi, lo] of its two 16-bit halves, so that     *)
(* every operation below is the machine operation modulo 2^32.             *)
(*                                                                         *)
(* Three further sketches compute in doubles (SpecFloat): "symbolic" and   *)
(* "symbolicNLFSR" evaluate the antiderivative at both bounds, "trapezoid" *)
(* sums the polynomial over num_intervals intervals.  A double is an exact *)
(* significand and exponent, and every operation rounds its exact result.  *)
(***************************************************************************)
EXTENDS Integers, Sequences, FiniteSets, TLC

VARIABLES
    a, b, c, d, e,        \* module-level coefficients
    x_start, x_end,       \* module-level integration bounds
    engine,               \* which sketch is built
    pc,                   \* control point of the run
    arg_x,                \* argument of the evaluatePolynomial call under way
    value, multiplier0,   \* arguments of the multiplyNLFSR call under way
    result, current, multiplier,   \* locals of multiplyNLFSR
    iters,                \* iterations of the while loop executed so far
    ret,                  \* value returned by the function called directly
    F_x_start, F_x_end,   \* locals of integratePolynomial
    integral,             \* local `result` of setup()
    steps,                \* while-loop iterations spent by the last evaluation
    serial,               \* numbers written by Serial.println, oldest first
    signalled,            \* error conditions reported to the caller
    num_intervals,        \* module-level interval count of the trapezoid sketch
    h, for_i,             \* locals h and i of trapezoidalIntegration
    taps                  \* the module-level feedback-tap array, <<>> where there is none

vars == <<a, b, c, d, e, x_start, x_end, engine, pc, arg_x, value, multiplier0,
          result, current, multiplier, iters, ret, F_x_start, F_x_end,
          integral, steps, serial, signalled, num_intervals, h, for_i, taps>>

-----------------------------------------------------------------------------
(* uint32_t as two 16-bit halves *)

Half == 2^16

Word == [hi : 0..(Half - 1), lo : 0..(Half - 1)]

\* the uint32_t with value n, for 0 <= n < 2^31
U32(n) == [hi |-> n \div Half, lo |-> n % Half]

Zero == U32(0)
One == U32(1)
MaxWord == [hi |-> Half - 1, lo |-> Half - 1]

isZero(x) == x.hi = 0 /\ x.lo = 0

\* x < y as unsigned 32-bit numbers
Less(x, y) == x.hi < y.hi \/ (x.hi = y.hi /\ x.lo < y.lo)

\* uint32_t + uint32_t
add32(x, y) ==
    LET l == x.lo + y.lo
    IN  [hi |-> (x.hi + y.hi + (l \div Half)) % Half, lo |-> l % Half]

\* uint32_t - uint32_t
sub32(x, y) ==
    LET l == x.lo - y.lo
        borrow == IF l < 0 THEN 1 ELSE 0
    IN  [hi |-> (x.hi - y.hi - borrow + 2 * Half) % Half, lo |-> (l + Half) % Half]

\* bit i of m ^ n, in place
xorBit(m, n, i) == ((((m \div (2^i)) % 2) + ((n \div (2^i)) % 2)) % 2) * (2^i)

\* bitwise exclusive or of two 16-bit halves
xorNat(m, n) ==
    (((xorBit(m, n, 0) + xorBit(m, n, 1)) + (xorBit(m, n, 2) + xorBit(m, n, 3)))
     + ((xorBit(m, n, 4) + xorBit(m, n, 5)) + (xorBit(m, n, 6) + xorBit(m, n, 7))))
    + (((xorBit(m, n, 8) + xorBit(m, n, 9)) + (xorBit(m, n, 10) + xorBit(m, n, 11)))
       + ((xorBit(m, n, 12) + xorBit(m, n, 13)) + (xorBit(m, n, 14) + xorBit(m, n, 15))))

\* uint32_t ^ uint32_t
xor32(x0, y0) ==
    LET bits[x \in Word, y \in Word] ==
            [hi |-> xorNat(x.hi, y.hi), lo |-> xorNat(x.lo, y.lo)]
    IN  bits[x0, y0]

\* x << 1
shl1(x) ==
    LET l == 2 * x.lo
    IN  [hi |-> ((2 * x.hi) + (l \div Half)) % Half, lo |-> l % Half]

\* x >> 1
shr1(x) == [hi |-> x.hi \div 2, lo |-> (x.lo \div 2) + ((x.hi % 2) * (Half \div 2))]

\* x & 1
bit0(x) == x.lo % 2

\* x / k for a small positive divisor k (unsigned integer division)
div32(x, k) ==
    LET r == x.hi % k
    IN  [hi |-> x.hi \div k, lo |-> ((r * Half) + x.lo) \div k]

\* x % k for a small positive divisor k
mod32(x, k) == (((x.hi % k) * Half) + x.lo) % k

\* the 32-bit product of two 16-bit halves
mulHalf(p, q) ==
    LET t0 == (p % 256) * q
        t1 == (p \div 256) * q
        s  == t0 + (256 * (t1 % 256))
    IN  [hi |-> (s \div Half) + (t1 \div 256), lo |-> s % Half]

\* uint32_t * uint32_t
mul32(x0, y0) ==
    LET times[x \in Word, y \in Word] ==
            [hi |-> (mulHalf(x.lo, y.lo).hi + mulHalf(x.hi, y.lo).lo
                     + mulHalf(x.lo, y.hi).lo) % Half,
             lo |-> mulHalf(x.lo, y.lo).lo]
    IN  times[x0, y0]

\* (state >> k) & 1
bitAt(x, k) == IF k < 16 THEN (x.lo \div (2^k)) % 2 ELSE (x.hi \div (2^(k - 16))) % 2

-----------------------------------------------------------------------------
(* The feedback register.  No function of the sketches calls it. *)

\* const uint8_t taps[] = {31, 21, 1, 0}
DefaultTaps == <<31, 21, 1, 0>>

\* NLFSR(state, taps, num_taps): the XOR of the tapped bits enters at bit 31
\* of the state shifted right by one
NLFSR(state, t, num_taps) ==
    LET feedback[i \in 0..num_taps] ==
            IF i = 0 THEN 0 ELSE (feedback[i - 1] + bitAt(state, t[i])) % 2
    IN  [hi |-> shr1(state).hi + (feedback[num_taps] * (Half \div 2)),
         lo |-> shr1(state).lo]

-----------------------------------------------------------------------------
(* multiplyNLFSR: the shift-and-accumulate loop *)

\* the accumulation before the correction: XOR whatever the engine
accumulate_xorAlways(eng, r, cur) == xor32(r, cur)

\* the accumulation of an engine that always adds
accumulate_addAlways(eng, r, cur) == add32(r, cur)

\* an accumulation that saturated at 2^32 - 1 instead of wrapping
accumulate_saturating(eng, r, cur) ==
    IF Less(add32(r, cur), r) THEN MaxWord ELSE add32(r, cur)

\* the accumulation of one partial product: `result += current` in the
\* corrected sketch, `result ^= current` in the XOR sketches
accumulate(eng, r, cur) == IF eng = "add" THEN add32(r, cur) ELSE xor32(r, cur)

\* x >> 1 on a signed 32-bit integer: the sign bit is kept
sar1(x) == [hi |-> (x.hi \div 2) + ((x.hi \div (Half \div 2)) * (Half \div 2)),
            lo |-> (x.lo \div 2) + ((x.hi % 2) * (Half \div 2))]

\* the loop body with the multiplier declared int32_t
MulBody_signedMultiplier(eng, st) ==
    [result     |-> IF bit0(st.multiplier) = 1
                    THEN accumulate(eng, st.result, st.current)
                    ELSE st.result,
     current    |-> shl1(st.current),
     multiplier |-> sar1(st.multiplier)]

\* the loop body with the shift of current placed before the accumulation
MulBody_shiftFirst(eng, st) ==
    [result     |-> IF bit0(st.multiplier) = 1
                    THEN accumulate(eng, st.result, shl1(st.current))
                    ELSE st.result,
     current    |-> shl1(st.current),
     multiplier |-> shr1(st.multiplier)]

\* the loop body without `current <<= 1`
MulBody_noShift(eng, st) ==
    [result     |-> IF bit0(st.multiplier) = 1
                    THEN accumulate(eng, st.result, st.current)
                    ELSE st.result,
     current    |-> st.current,
     multiplier |-> shr1(st.multiplier)]

\* a loop body that stepped current through the feedback register
MulBody_throughNLFSR(eng, st) ==
    [result     |-> IF bit0(st.multiplier) = 1
                    THEN accumulate(eng, st.result, st.current)
                    ELSE st.result,
     current    |-> NLFSR(st.current, taps, Len(taps)),
     multiplier |-> shr1(st.multiplier)]

\* one iteration of `while (multiplier > 0) { ... }` on the locals
\* st = [result, current, multiplier]
MulBody(eng, st) ==
    [result     |-> IF bit0(st.multiplier) = 1
                    THEN accumulate(eng, st.result, st.current)
                    ELSE st.result,
     current    |-> shl1(st.current),
     multiplier |-> shr1(st.multiplier)]

\* a multiplyNLFSR whose result were a static: it starts from what is left
MulEntry_keepsResult(v, m) == [result |-> result, current |-> v, multiplier |-> m]

\* the locals on entry: result = 0, current = value
MulEntry(v, m) == [result |-> Zero, current |-> v, multiplier |-> m]

\* the locals of a call in progress, with the iterations run so far
MulLocals == [st : [result : Word, current : Word, multiplier : Word], n : Nat]

\* The loop run to its exit; n counts the iterations.  pass is one turn of
\* `while (multiplier) { ... }`: the test, then the body when it holds.  while
\* takes eight turns at a time, which keeps its evaluation shallow and changes
\* nothing: a turn after the exit leaves the locals as they are.
MulLoop(eng, st0, n0) ==
    LET pass[s \in MulLocals] ==
            IF isZero(s.st.multiplier) THEN s
            ELSE [st |-> MulBody(eng, s.st), n |-> s.n + 1]
        while[s \in MulLocals] ==
            IF isZero(s.st.multiplier)
            THEN [w |-> s.st.result, n |-> s.n]
            ELSE while[pass[pass[pass[pass[pass[pass[pass[pass[s]]]]]]]]]
    IN  while[[st |-> st0, n |-> n0]]

\* multiplyNLFSR(value, multiplier): [w |-> returned value, n |-> iterations]
multiplyNLFSR(eng, v, m) == MulLoop(eng, MulEntry(v, m), 0)

\* a value with the loop iterations spent on computing it
Product == [w : Word, n : Nat]

\* a literal argument, costing no iteration
Lit(w) == [w |-> w, n |-> 0]

\* multiplyNLFSR(v, <inner call>): the inner call's value is the multiplier
\* and its iterations are counted on
Nest(eng, v, inner) == MulLoop(eng, MulEntry(v, inner.w), inner.n)

-----------------------------------------------------------------------------
(* the addition engine *)

\* term1 + term2 + term3 + term4 + term5
sumAdd(t) ==
    [w |-> add32(add32(add32(add32(t[1].w, t[2].w), t[3].w), t[4].w), t[5].w),
     n |-> t[1].n + t[2].n + t[3].n + t[4].n + t[5].n]

\* evaluatePolynomial(x) with the cubic term built from one factor x too few
evaluatePolynomialAdd_shortPower(x) ==
    LET M[v \in Word, r \in Product] == Nest("add", v, r)
        return[t \in Seq(Product)] == sumAdd(t)
    IN  return[<<M[a, M[x, M[x, M[x, Lit(x)]]]],
                 M[b, M[x, M[x, Lit(One)]]],
                 M[c, M[x, M[x, Lit(One)]]],
                 M[d, Lit(x)],
                 Lit(e)>>]

\* evaluatePolynomial(x), addition engine
evaluatePolynomialAdd(x) ==
    LET M[v \in Word, r \in Product] == Nest("add", v, r)
        return[t \in Seq(Product)] == sumAdd(t)
    IN  return[<<M[a, M[x, M[x, M[x, Lit(x)]]]],
                 M[b, M[x, M[x, M[x, Lit(One)]]]],
                 M[c, M[x, M[x, Lit(One)]]],
                 M[d, Lit(x)],
                 Lit(e)>>]

\* the five products of evaluateAntiderivative(x), addition engine, before any
\* division: a x^5, b x^4, c x^3, d x^2, e x, each by nested multiplyNLFSR calls
antiderivativeProductsAdd(x) ==
    LET M[v \in Word, r \in Product] == Nest("add", v, r)
    IN  <<M[a, M[x, M[x, M[x, M[x, M[x, Lit(One)]]]]]],
          M[b, M[x, M[x, M[x, M[x, Lit(One)]]]]],
          M[c, M[x, M[x, M[x, Lit(One)]]]],
          M[d, M[x, M[x, Lit(One)]]],
          M[e, Lit(x)]>>

\* evaluateAntiderivative(x), the historical form: the bare coefficient is
\* divided before the multiplication
evaluateAntiderivativeAdd_divideFirst(x) ==
    LET M[v \in Word, r \in Product] == Nest("add", v, r)
        return[t \in Seq(Product)] == sumAdd(t)
    IN  return[<<M[div32(a, 5), M[x, M[x, M[x, M[x, M[x, Lit(One)]]]]]],
                 M[div32(b, 4), M[x, M[x, M[x, M[x, Lit(One)]]]]],
                 M[div32(c, 3), M[x, M[x, M[x, Lit(One)]]]],
                 M[div32(d, 2), M[x, M[x, Lit(One)]]],
                 M[e, Lit(x)]>>]

\* an antiderivative whose last term were the constant e, not e * x
evaluateAntiderivativeAdd_constantTerm(x) ==
    LET return[p \in Seq(Product)] ==
            sumAdd(<<[w |-> div32(p[1].w, 5), n |-> p[1].n],
                     [w |-> div32(p[2].w, 4), n |-> p[2].n],
                     [w |-> div32(p[3].w, 3), n |-> p[3].n],
                     [w |-> div32(p[4].w, 2), n |-> p[4].n],
                     Lit(e)>>)
    IN  return[antiderivativeProductsAdd(x)]

\* evaluateAntiderivative(x), addition engine: multiply first, divide the product
evaluateAntiderivativeAdd(x) ==
    LET return[p \in Seq(Product)] ==
            sumAdd(<<[w |-> div32(p[1].w, 5), n |-> p[1].n],
                     [w |-> div32(p[2].w, 4), n |-> p[2].n],
                     [w |-> div32(p[3].w, 3), n |-> p[3].n],
                     [w |-> div32(p[4].w, 2), n |-> p[4].n],
                     p[5]>>)
    IN  return[antiderivativeProductsAdd(x)]

\* an integratePolynomial that subtracted the other way round
integratePolynomialAdd_reversed(x0, x1) ==
    LET return[Fs \in Product, Fe \in Product] ==
            [F_x_start |-> Fs.w, F_x_end |-> Fe.w,
             w |-> sub32(Fs.w, Fe.w), n |-> Fs.n + Fe.n]
    IN  return[evaluateAntiderivativeAdd(x0), evaluateAntiderivativeAdd(x1)]

\* integratePolynomial(x_start, x_end), addition engine
integratePolynomialAdd(x0, x1) ==
    LET return[Fs \in Product, Fe \in Product] ==
            [F_x_start |-> Fs.w, F_x_end |-> Fe.w,
             w |-> sub32(Fe.w, Fs.w), n |-> Fs.n + Fe.n]
    IN  return[evaluateAntiderivativeAdd(x0), evaluateAntiderivativeAdd(x1)]

-----------------------------------------------------------------------------
(* the XOR engine *)

\* term1 ^ term2 ^ term3 ^ term4 ^ term5
sumXor(t) ==
    [w |-> xor32(xor32(xor32(xor32(t[1].w, t[2].w), t[3].w), t[4].w), t[5].w),
     n |-> t[1].n + t[2].n + t[3].n + t[4].n + t[5].n]

\* evaluatePolynomial(x), XOR engine
evaluatePolynomialXor(x) ==
    LET M[v \in Word, r \in Product] == Nest("xor", v, r)
        return[t \in Seq(Product)] == sumXor(t)
    IN  return[<<M[a, M[x, M[x, M[x, Lit(x)]]]],
                 M[b, M[x, M[x, M[x, Lit(One)]]]],
                 M[c, M[x, M[x, Lit(One)]]],
                 M[d, Lit(x)],
                 Lit(e)>>]

\* evaluateAntiderivative(x) of the XOR sketch replaced by the corrected one
evaluateAntiderivativeXor_corrected(x) == evaluateAntiderivativeAdd(x)

\* evaluateAntiderivative(x), XOR engine: the coefficient is divided first
evaluateAntiderivativeXor(x) ==
    LET M[v \in Word, r \in Product] == Nest("xor", v, r)
        return[t \in Seq(Product)] == sumXor(t)
    IN  return[<<M[div32(a, 5), M[x, M[x, M[x, M[x, M[x, Lit(One)]]]]]],
                 M[div32(b, 4), M[x, M[x, M[x, M[x, Lit(One)]]]]],
                 M[div32(c, 3), M[x, M[x, M[x, Lit(One)]]]],
                 M[div32(d, 2), M[x, M[x, Lit(One)]]],
                 M[e, Lit(x)]>>]

\* an XOR sketch whose integratePolynomial subtracted the two evaluations
integratePolynomialXor_subtracts(x0, x1) ==
    LET return[Fs \in Product, Fe \in Product] ==
            [F_x_start |-> Fs.w, F_x_end |-> Fe.w,
             w |-> sub32(Fe.w, Fs.w), n |-> Fs.n + Fe.n]
    IN  return[evaluateAntiderivativeXor(x0), evaluateAntiderivativeXor(x1)]

\* integratePolynomial(x_start, x_end), XOR engine
integratePolynomialXor(x0, x1) ==
    LET return[Fs \in Product, Fe \in Product] ==
            [F_x_start |-> Fs.w, F_x_end |-> Fe.w,
             w |-> xor32(Fe.w, Fs.w), n |-> Fs.n + Fe.n]
    IN  return[evaluateAntiderivativeXor(x0), evaluateAntiderivativeXor(x1)]

-----------------------------------------------------------------------------
(* the shift sketch: multiplyNLFSR(value, power) XORs `power` successive    *)
(* shifts of value, and each term is that register times x                 *)

\* multiplyNLFSR(value, power) of the shift sketch, power a literal of the
\* sketch: for (i = 0; i < power; i++) { result ^= feedback; feedback <<= 1; }
multiplyNLFSRShift(v, power) ==
    LET for[s \in [result : Word, feedback : Word, i : Nat]] ==
            IF s.i < power
            THEN for[[result |-> xor32(s.result, s.feedback),
                      feedback |-> shl1(s.feedback), i |-> s.i + 1]]
            ELSE [w |-> s.result, n |-> s.i]
    IN  for[[result |-> Zero, feedback |-> v, i |-> 0]]

\* multiplyNLFSR(coef, power) * x
timesX(r, x) == [w |-> mul32(r.w, x), n |-> r.n]

\* polynomialNLFSR(x)
polynomialNLFSR(x) ==
    LET return[t \in Seq(Product)] == sumXor(t)
    IN  return[<<timesX(multiplyNLFSRShift(a, 4), x),
                 timesX(multiplyNLFSRShift(b, 3), x),
                 timesX(multiplyNLFSRShift(c, 2), x),
                 timesX(multiplyNLFSRShift(d, 1), x),
                 Lit(e)>>]

\* antiderivativeNLFSR(x)
antiderivativeNLFSR(x) ==
    LET return[t \in Seq(Product)] == sumXor(t)
    IN  return[<<timesX(multiplyNLFSRShift(div32(a, 5), 5), x),
                 timesX(multiplyNLFSRShift(div32(b, 4), 4), x),
                 timesX(multiplyNLFSRShift(div32(c, 3), 3), x),
                 timesX(multiplyNLFSRShift(div32(d, 2), 2), x),
                 timesX(multiplyNLFSRShift(e, 1), x)>>]

\* symbolicIntegrationNLFSR(x_start, x_end)
symbolicIntegrationNLFSR(x0, x1) ==
    LET return[Fs \in Product, Fe \in Product] ==
            [F_x_start |-> Fs.w, F_x_end |-> Fe.w,
             w |-> xor32(Fe.w, Fs.w), n |-> Fs.n + Fe.n]
    IN  return[antiderivativeNLFSR(x0), antiderivativeNLFSR(x1)]

-----------------------------------------------------------------------------
\* the engine the sketch was built with
evaluatePolynomial(eng, x) ==
    CASE eng = "add"   -> evaluatePolynomialAdd(x)
      [] eng = "xor"   -> evaluatePolynomialXor(x)
      [] eng = "shift" -> polynomialNLFSR(x)

integratePolynomial(eng, x0, x1) ==
    CASE eng = "add"   -> integratePolynomialAdd(x0, x1)
      [] eng = "xor"   -> integratePolynomialXor(x0, x1)
      [] eng = "shift" -> symbolicIntegrationNLFSR(x0, x1)

-----------------------------------------------------------------------------
(* Exact arithmetic on unbounded naturals, the reference the engines are   *)
(* compared with.  A natural is the sequence of its base-2^15 digits, least *)
(* significant first, without leading zero digits (<<>> is 0).  An operand  *)
(* is bound by a function application, which computes it before the body.  *)

BigBase == 2^15

\* digit i of x, zero beyond its length
Digit(x, i) == IF i <= Len(x) THEN x[i] ELSE 0

\* x without leading zero digits
BigNorm(s0) ==
    LET norm[s \in Seq(Nat)] ==
            LET top == {i \in 1..Len(s) : s[i] # 0}
            IN  IF top = {} THEN <<>>
                ELSE SubSeq(s, 1, CHOOSE i \in top : \A k \in top : k <= i)
    IN  norm[s0]

\* a natural below 2^31
BigOfNat(n) == BigNorm(<<n % BigBase, (n \div BigBase) % BigBase, n \div (BigBase * BigBase)>>)

BigOfWord(w) ==
    BigNorm(<<w.lo % BigBase,
              (w.lo \div BigBase) + (2 * (w.hi % (BigBase \div 2))),
              w.hi \div (BigBase \div 2)>>)

BigAdd(x0, y0) ==
    LET add[x \in Seq(Nat), y \in Seq(Nat)] ==
            LET len == IF Len(x) > Len(y) THEN Len(x) ELSE Len(y)
                go[i \in Nat, carry \in Nat, acc \in Seq(Nat)] ==
                    IF i > len
                    THEN IF carry = 0 THEN acc ELSE Append(acc, carry)
                    ELSE go[i + 1,
                            (Digit(x, i) + Digit(y, i) + carry) \div BigBase,
                            Append(acc, (Digit(x, i) + Digit(y, i) + carry) % BigBase)]
            IN  go[1, 0, <<>>]
    IN  add[x0, y0]

\* x * k for 0 <= k < BigBase
BigMulSmall(x0, k0) ==
    LET mul[x \in Seq(Nat), k \in Nat] ==
            LET go[i \in Nat, carry \in Nat, acc \in Seq(Nat)] ==
                    IF i > Len(x)
                    THEN IF carry = 0 THEN acc ELSE Append(acc, carry)
                    ELSE go[i + 1,
                            ((x[i] * k) + carry) \div BigBase,
                            Append(acc, ((x[i] * k) + carry) % BigBase)]
            IN  BigNorm(go[1, 0, <<>>])
    IN  mul[x0, k0]

BigMul(x0, y0) ==
    LET mul[x \in Seq(Nat), y \in Seq(Nat)] ==
            LET go[j \in Nat, acc \in Seq(Nat)] ==
                    IF j > Len(y) THEN acc
                    ELSE go[j + 1,
                            IF y[j] = 0 \/ x = <<>> THEN acc
                            ELSE BigAdd(acc, [i \in 1..(j - 1) |-> 0] \o BigMulSmall(x, y[j]))]
            IN  go[1, <<>>]
    IN  mul[x0, y0]

\* x < y, decided at the most significant digit that differs
BigLess(x, y) ==
    IF Len(x) # Len(y) THEN Len(x) < Len(y)
    ELSE \E i \in 1..Len(x) :
            x[i] < y[i] /\ \A k \in (i + 1)..Len(x) : x[k] = y[k]

BigLeq(x, y) == ~BigLess(y, x)

\* x - y for y <= x
BigSub(x0, y0) ==
    LET sub[x \in Seq(Nat), y \in Seq(Nat)] ==
            LET go[i \in Nat, borrow \in Nat, acc \in Seq(Nat)] ==
                    IF i > Len(x) THEN acc
                    ELSE go[i + 1,
                            IF x[i] - Digit(y, i) - borrow < 0 THEN 1 ELSE 0,
                            Append(acc, (x[i] - Digit(y, i) - borrow + BigBase) % BigBase)]
            IN  BigNorm(go[1, 0, <<>>])
    IN  sub[x0, y0]

\* floor(x / k) and x mod k for 0 < k < 2^15, from the top digit down
BigDivMod(x0, k0) ==
    LET div[x \in Seq(Nat), k \in Nat] ==
            LET go[i \in Nat, rem \in Nat, q \in Seq(Nat)] ==
                    IF i = 0 THEN [q |-> BigNorm(q), r |-> rem]
                    ELSE go[i - 1,
                            ((rem * BigBase) + x[i]) % k,
                            <<((rem * BigBase) + x[i]) \div k>> \o q]
            IN  go[Len(x), 0, <<>>]
    IN  div[x0, k0]

BigDiv(x, k) == BigDivMod(x, k).q
BigMod(x, k) == BigDivMod(x, k).r

BigPow(x0, k0) ==
    LET pow[x \in Seq(Nat), k \in Nat] ==
            LET go[j \in Nat, acc \in Seq(Nat)] ==
                    IF j = 0 THEN acc ELSE go[j - 1, BigMul(acc, x)]
            IN  go[k, BigOfNat(1)]
    IN  pow[x0, k0]

\* the natural fits a uint32_t
FitsWord(n) == Len(n) <= 2 \/ (Len(n) = 3 /\ n[3] < 4)

\* the low 32 bits of a natural, as a uint32_t
WordOfBig(n) ==
    [hi |-> (Digit(n, 2) \div 2) + ((BigBase \div 2) * (Digit(n, 3) % 4)),
     lo |-> Digit(n, 1) + (BigBase * (Digit(n, 2) % 2))]

-----------------------------------------------------------------------------
(* The floating sketches compute in IEEE binary64.  A number is            *)
(* (-1)^neg * m * 2^e with m an exact natural; a double is such a number   *)
(* with m of exactly Mant bits, or zero.  The exponent range is not        *)
(* modelled: the values tried stay far from overflow and underflow.        *)

\* significand bits of a double
Mant == 53

\* number of bits of a digit
DigitBits(n) ==
    LET len[k \in Nat, j \in Nat] == IF k = 0 THEN j ELSE len[k \div 2, j + 1]
    IN  len[n, 0]

\* number of bits of a natural, 0 for 0
BigBitLen(x) == IF x = <<>> THEN 0 ELSE (15 * (Len(x) - 1)) + DigitBits(x[Len(x)])

\* x * 2^s
BigShl(x0, s0) ==
    LET shl[x \in Seq(Nat), s \in Nat] ==
            IF x = <<>> THEN <<>>
            ELSE [j \in 1..(s \div 15) |-> 0] \o BigMulSmall(x, 2^(s % 15))
    IN  shl[x0, s0]

\* floor(x / 2^s)
BigShr(x0, s0) ==
    LET shr[x \in Seq(Nat), s \in Nat] ==
            IF s \div 15 >= Len(x) THEN <<>>
            ELSE BigDiv(SubSeq(x, (s \div 15) + 1, Len(x)), 2^(s % 15))
    IN  shr[x0, s0]

Number == [neg : BOOLEAN, m : Seq(Nat), e : Int]

FZero == [neg |-> FALSE, m |-> <<>>, e |-> 0]

\* exact negation and product
xneg(x) == [neg |-> ~x.neg, m |-> x.m, e |-> x.e]

xmul[x \in Number, y \in Number] ==
    [neg |-> x.neg # y.neg, m |-> BigMul(x.m, y.m), e |-> x.e + y.e]

\* the sum of (-1)^neg1 * X * 2^e0 and (-1)^neg2 * Y * 2^e0
xaligned[neg1 \in BOOLEAN, neg2 \in BOOLEAN, X \in Seq(Nat), Y \in Seq(Nat), e0 \in Int] ==
    IF neg1 = neg2
    THEN [neg |-> neg1, m |-> BigAdd(X, Y), e |-> e0]
    ELSE IF BigLess(X, Y)
         THEN [neg |-> neg2, m |-> BigSub(Y, X), e |-> e0]
         ELSE [neg |-> neg1, m |-> BigSub(X, Y), e |-> e0]

\* the sum of two numbers brought to the exponent e0, the smaller of theirs
xshifted[x \in Number, y \in Number, e0 \in Int] ==
    xaligned[x.neg, y.neg, BigShl(x.m, x.e - e0), BigShl(y.m, y.e - e0), e0]

\* exact sum
xadd[x \in Number, y \in Number] ==
    IF x.m = <<>> THEN y
    ELSE IF y.m = <<>> THEN x
    ELSE xshifted[x, y, IF x.e < y.e THEN x.e ELSE y.e]

xsub(x, y) == xadd[x, xneg(y)]

\* x < y and x <= y, exactly
xless(x, y) == LET diff == xsub(x, y) IN diff.m # <<>> /\ diff.neg

xleq(x, y) == ~xless(y, x)

xabs(x) == [neg |-> FALSE, m |-> x.m, e |-> x.e]

\* a rounded significand of Mant + 1 bits is halved
RoundFit[neg \in BOOLEAN, q \in Seq(Nat), e0 \in Int] ==
    IF BigBitLen(q) > Mant
    THEN [neg |-> neg, m |-> BigShr(q, 1), e |-> e0 + 1]
    ELSE [neg |-> neg, m |-> q, e |-> e0]

\* q * 2^s + rem rounded to a multiple of 2^s: up when rem is above half of
\* 2^s, or equal to it with q odd
RoundNearest[x \in Number, q \in Seq(Nat), s \in Nat, rem \in Seq(Nat), half \in Seq(Nat)] ==
    RoundFit[x.neg,
             IF BigLess(half, rem) \/ (rem = half /\ q[1] % 2 = 1)
             THEN BigAdd(q, <<1>>) ELSE q,
             x.e + s]

\* the significand cut to its Mant leading bits q, and what was cut
RoundCut[x \in Number, q \in Seq(Nat), s \in Nat] ==
    RoundNearest[x, q, s, BigSub(x.m, BigShl(q, s)), BigShl(<<1>>, s - 1)]

\* rounding of a number whose significand has L bits
RoundSized[x \in Number, L \in Nat] ==
    IF L = 0 THEN FZero
    ELSE IF L <= Mant
         THEN [neg |-> x.neg, m |-> BigShl(x.m, Mant - L), e |-> x.e - (Mant - L)]
         ELSE RoundCut[x, BigShr(x.m, L - Mant), L - Mant]

\* round to nearest double, ties to even
Round[x \in Number] == RoundSized[x, BigBitLen(x.m)]

\* the double of an int
FromInt(n) ==
    Round[[neg |-> n < 0, m |-> BigOfNat(IF n < 0 THEN 0 - n ELSE n), e |-> 0]]

\* double + double, double - double, double * double
fadd[x \in Number, y \in Number] == Round[xadd[x, y]]

fsub[x \in Number, y \in Number] == Round[xadd[x, xneg(y)]]

fmul[x \in Number, y \in Number] == Round[xmul[x, y]]

\* a quotient and remainder of BigDivMod
QuotRem == [q : Seq(Nat), r : Nat]

\* the quotient to 17 extra bits, and one more bit set when the division
\* left a remainder
fdivSticky[neg \in BOOLEAN, Q \in QuotRem, e0 \in Int] ==
    Round[[neg |-> neg,
           m   |-> BigAdd(BigShl(Q.q, 1), IF Q.r = 0 THEN <<>> ELSE <<1>>),
           e   |-> e0]]

\* double / k for an int 0 < k < 2^15 converted to double
fdiv[x \in Number, k \in Nat] ==
    IF x.m = <<>> THEN FZero
    ELSE fdivSticky[x.neg, BigDivMod(BigShl(x.m, 17), k), x.e - 18]

\* pow(x, k) for a literal k > 0: the exact power, rounded once
pow[x \in Number, k \in Nat] ==
    Round[[neg |-> x.neg /\ (k % 2 = 1), m |-> BigPow(x.m, k), e |-> x.e * k]]

-----------------------------------------------------------------------------
(* Inputs *)

MaxMul == 5
MaxCoef == 1
MaxX == 2

\* the engines whose multiplyNLFSR(value, multiplier) is a while loop
Engines == {"add", "xor"}

\* the integer sketches
Sketches == Engines \cup {"shift"}

\* arguments tried on multiplyNLFSR
MulInputs ==
    {U32(n) : n \in 0..MaxMul}
    \cup {U32(10), U32(255), U32(256), U32(46341), U32(65535), U32(65536),
          U32(65537), U32(100000), U32(2147483647),
          [hi |-> 32768, lo |-> 0], [hi |-> 43690, lo |-> 43690], MaxWord}

\* arguments of the calls of multiplyNLFSR that follow one another
Repeated == {U32(n) : n \in 0..MaxMul}

\* the coefficients of the sketches as written
DefaultCoefs == <<U32(1), U32(2), U32(3), U32(4), U32(5)>>

\* coefficient vectors <<a, b, c, d, e>> tried
CoefVectors ==
    {DefaultCoefs}
    \cup {[i \in 1..5 |-> IF i = j THEN U32(k) ELSE Zero] : j \in 1..5, k \in 1..MaxCoef}
    \cup {[i \in 1..5 |-> U32(k)] : k \in 0..MaxCoef}
    \cup {<<U32(10), Zero, Zero, Zero, Zero>>,
          <<U32(11), Zero, Zero, Zero, Zero>>,
          <<U32(5), U32(4), U32(3), U32(2), U32(1)>>,
          <<MaxWord, MaxWord, MaxWord, MaxWord, MaxWord>>}

\* abscissas tried as bounds and as arguments
Bounds ==
    {U32(n) : n \in 0..MaxX}
    \cup {U32(10), U32(100)}

-----------------------------------------------------------------------------
(* The runs: a sketch from power-up, or one function called directly *)

Idle ==
    /\ result = Zero /\ current = Zero /\ multiplier = Zero /\ iters = 0
    /\ ret = Zero /\ F_x_start = Zero /\ F_x_end = Zero /\ integral = Zero
    /\ steps = 0 /\ serial = <<>> /\ signalled = {}
    /\ num_intervals = 0 /\ h = FZero /\ for_i = 0

\* the sketch as written: coefficients 1..5, bounds 0 and 10
\* a, b, c, d, e set from a vector
Coefs(v) == a = v[1] /\ b = v[2] /\ c = v[3] /\ d = v[4] /\ e = v[5]

Defaults ==
    /\ Coefs(DefaultCoefs)
    /\ x_start = U32(0) /\ x_end = U32(10)

InitSketch ==
    /\ pc = "setup"
    /\ \E v \in CoefVectors : Coefs(v)
    /\ x_start \in Bounds /\ x_end \in Bounds
    /\ value = Zero /\ multiplier0 = Zero /\ arg_x = Zero

InitMultiply ==
    /\ pc = "multiplyNLFSR"
    /\ Defaults
    /\ value \in MulInputs /\ multiplier0 \in MulInputs /\ arg_x = Zero

InitPolynomial ==
    /\ pc = "evaluatePolynomial"
    /\ \E v \in CoefVectors : Coefs(v)
    /\ x_start = U32(0) /\ x_end = U32(10)
    /\ arg_x \in Bounds
    /\ value = Zero /\ multiplier0 = Zero

Init ==
    /\ Idle
    /\ \/ engine \in Sketches /\ (InitSketch \/ InitPolynomial)
       \/ engine \in Engines /\ InitMultiply
    /\ taps = IF engine = "add" THEN DefaultTaps ELSE <<>>

\* multiplyNLFSR entered: result = 0, current = value
MulCall ==
    /\ pc = "multiplyNLFSR"
    /\ result' = MulEntry(value, multiplier0).result
    /\ current' = MulEntry(value, multiplier0).current
    /\ multiplier' = MulEntry(value, multiplier0).multiplier
    /\ iters' = 0
    /\ pc' = "while"
    /\ UNCHANGED <<a, b, c, d, e, x_start, x_end, engine, value, multiplier0,
                   arg_x, ret, F_x_start, F_x_end, integral, steps, serial, signalled,
                   num_intervals, h, for_i, taps>>

\* one iteration of the while loop
MulIter ==
    /\ pc = "while"
    /\ ~isZero(multiplier)
    /\ \E st \in {MulBody(engine, [result |-> result, current |-> current,
                                     multiplier |-> multiplier])} :
           /\ result' = st.result
           /\ current' = st.current
           /\ multiplier' = st.multiplier
    /\ iters' = iters + 1
    /\ UNCHANGED <<a, b, c, d, e, x_start, x_end, engine, pc, value, multiplier0,
                   arg_x, ret, F_x_start, F_x_end, integral, steps, serial, signalled,
                   num_intervals, h, for_i, taps>>

\* the loop condition fails: return result
MulReturn ==
    /\ pc = "while"
    /\ isZero(multiplier)
    /\ ret' = result
    /\ steps' = iters
    /\ pc' = "multiplyNLFSR_done"
    /\ UNCHANGED <<a, b, c, d, e, x_start, x_end, engine, value, multiplier0, arg_x,
                   result, current, multiplier, iters, F_x_start, F_x_end,
                   integral, serial, signalled,
                   num_intervals, h, for_i, taps>>

\* the next call of multiplyNLFSR: new arguments arrive, and the locals of
\* the activation that returned are what is left on the stack
MulAgain ==
    /\ pc = "multiplyNLFSR_done"
    /\ value \in Repeated /\ multiplier0 \in Repeated
    /\ value' \in Repeated /\ multiplier0' \in Repeated
    /\ pc' = "multiplyNLFSR"
    /\ UNCHANGED <<a, b, c, d, e, x_start, x_end, engine, arg_x,
                   result, current, multiplier, iters, ret, F_x_start, F_x_end,
                   integral, steps, serial, signalled,
                   num_intervals, h, for_i, taps>>

\* evaluatePolynomial(arg_x) called and returned
PolyCall ==
    /\ pc = "evaluatePolynomial"
    /\ \E r \in {evaluatePolynomial(engine, arg_x)} :
           ret' = r.w /\ steps' = r.n
    /\ pc' = "evaluatePolynomial_done"
    /\ UNCHANGED <<a, b, c, d, e, x_start, x_end, engine, value, multiplier0, arg_x,
                   result, current, multiplier, iters, F_x_start, F_x_end,
                   integral, serial, signalled,
                   num_intervals, h, for_i, taps>>

\* the next call of evaluatePolynomial, on another argument or the same
PolyAgain ==
    /\ pc = "evaluatePolynomial_done"
    /\ arg_x' \in Bounds
    /\ pc' = "evaluatePolynomial"
    /\ UNCHANGED <<a, b, c, d, e, x_start, x_end, engine, value, multiplier0,
                   result, current, multiplier, iters, ret, F_x_start, F_x_end,
                   integral, steps, serial, signalled,
                   num_intervals, h, for_i, taps>>

\* setup(): integrate between the module-level bounds and print the result
setup ==
    /\ pc = "setup"
    /\ \E r \in {integratePolynomial(engine, x_start, x_end)} :
           /\ F_x_start' = r.F_x_start
           /\ F_x_end' = r.F_x_end
           /\ integral' = r.w
           /\ serial' = Append(serial, r.w)
           /\ steps' = r.n
    /\ pc' = "loop"
    /\ UNCHANGED <<a, b, c, d, e, x_start, x_end, engine, value, multiplier0, arg_x,
                   result, current, multiplier, iters, ret, signalled,
                   num_intervals, h, for_i, taps>>

\* a loop() that printed the integral again, twice at most
loop_printsAgain ==
    /\ pc = "loop"
    /\ Len(serial) < 3
    /\ serial' = Append(serial, integral)
    /\ UNCHANGED <<a, b, c, d, e, x_start, x_end, engine, pc, value, multiplier0, arg_x,
                   result, current, multiplier, iters, ret, F_x_start, F_x_end,
                   integral, steps, signalled, num_intervals, h, for_i, taps>>

\* loop(): nothing to run continuously
loop ==
    /\ pc = "loop"
    /\ UNCHANGED vars

Next ==
    \/ MulCall \/ MulIter \/ MulReturn \/ MulAgain
    \/ PolyCall \/ PolyAgain
    \/ setup \/ loop

Spec == Init /\ [][Next]_vars

-----------------------------------------------------------------------------
(* Exact values the engines are compared with *)

\* coef * x^k as a natural
ExactTerm(coef, x, k) == BigMul(BigOfWord(coef), BigPow(BigOfWord(x), k))

\* every product formed while building coef * x^k fits a uint32_t
TermFits(coef, x, k) ==
    /\ \A j \in 1..k : FitsWord(BigPow(BigOfWord(x), j))
    /\ FitsWord(ExactTerm(coef, x, k))

\* a x^4 + b x^3 + c x^2 + d x + e as a natural
ExactPolynomial(x) ==
    BigAdd(BigAdd(BigAdd(BigAdd(ExactTerm(a, x, 4), ExactTerm(b, x, 3)),
                         ExactTerm(c, x, 2)), ExactTerm(d, x, 1)), BigOfWord(e))

\* no nested product and no partial sum of evaluatePolynomial(x) exceeds 2^32 - 1
NoOverflowPolynomial(x) ==
    /\ TermFits(a, x, 4) /\ TermFits(b, x, 3) /\ TermFits(c, x, 2) /\ TermFits(d, x, 1)
    /\ FitsWord(ExactPolynomial(x))

\* floor(a x^5 / 5) + floor(b x^4 / 4) + floor(c x^3 / 3) + floor(d x^2 / 2) + e x
FlooredAntiderivative(x) ==
    BigAdd(BigAdd(BigAdd(BigAdd(BigDiv(ExactTerm(a, x, 5), 5), BigDiv(ExactTerm(b, x, 4), 4)),
                         BigDiv(ExactTerm(c, x, 3), 3)), BigDiv(ExactTerm(d, x, 2), 2)),
           ExactTerm(e, x, 1))

\* no nested product and no partial sum of evaluateAntiderivative(x) exceeds 2^32 - 1
NoOverflowAntiderivative(x) ==
    /\ TermFits(a, x, 5) /\ TermFits(b, x, 4) /\ TermFits(c, x, 3)
    /\ TermFits(d, x, 2) /\ TermFits(e, x, 1)
    /\ FitsWord(FlooredAntiderivative(x))

\* 60 F(x) = 12 a x^5 + 15 b x^4 + 20 c x^3 + 30 d x^2 + 60 e x
SixtyF(x) ==
    BigAdd(BigAdd(BigAdd(BigAdd(BigMulSmall(ExactTerm(a, x, 5), 12),
                                BigMulSmall(ExactTerm(b, x, 4), 15)),
                         BigMulSmall(ExactTerm(c, x, 3), 20)),
                  BigMulSmall(ExactTerm(d, x, 2), 30)),
           BigMulSmall(ExactTerm(e, x, 1), 60))

\* F(x1) - F(x0) as a rational, truncated once, for x0 <= x1
ExactIntegralTruncated(x0, x1) == BigDiv(BigSub(SixtyF(x1), SixtyF(x0)), 60)

\* number of bits of a uint32_t up to its highest set bit
RECURSIVE BitLenNat(_)
BitLenNat(n) == IF n = 0 THEN 0 ELSE 1 + BitLenNat(n \div 2)

BitLength(w) == IF w.hi > 0 THEN 16 + BitLenNat(w.hi) ELSE BitLenNat(w.lo)

\* some division of evaluateAntiderivative(x), addition engine, has a remainder
RemainderDiscarded(x) ==
    LET p == antiderivativeProductsAdd(x)
    IN  \/ mod32(p[1].w, 5) # 0 \/ mod32(p[2].w, 4) # 0
        \/ mod32(p[3].w, 3) # 0 \/ mod32(p[4].w, 2) # 0

-----------------------------------------------------------------------------
(* Claims *)

\* C1: the corrected (+=) multiplyNLFSR(p, q) returns exactly p * q whenever
\* the true product is below 2^32.
C1_MultiplyExact ==
    (pc = "multiplyNLFSR_done" /\ engine = "add"
        /\ FitsWord(BigMul(BigOfWord(value), BigOfWord(multiplier0))))
    => BigOfWord(ret) = BigMul(BigOfWord(value), BigOfWord(multiplier0))

C1_Witness ==
    /\ pc = "multiplyNLFSR_done" /\ engine = "add"
    /\ value = U32(65535) /\ multiplier0 = U32(65537)
    /\ ret = MaxWord

\* C2: with a=1, b=2, c=3, d=4, e=5, x_start=0, x_end=10 the addition engine
\* returns exactly 26250, and that is the number printed.
C2_FixtureAdd ==
    (pc = "loop" /\ engine = "add" /\ Defaults)
    => (integral = U32(26250) /\ serial = <<U32(26250)>>)

C2_Witness == pc = "loop" /\ engine = "add" /\ Defaults /\ F_x_end = U32(26250)

\* C3 (as claimed): without overflow, for x_start <= x_end, the addition engine
\* returns F(x_end) - F(x_start) computed exactly and truncated once.
C3_TruncatedOnce ==
    (pc = "loop" /\ engine = "add" /\ ~Less(x_end, x_start)
        /\ NoOverflowAntiderivative(x_start) /\ NoOverflowAntiderivative(x_end))
    => BigOfWord(integral) = ExactIntegralTruncated(x_start, x_end)

\* C4 (as claimed): a term division that discards a nonzero remainder is
\* signalled as PrecisionLoss instead of a truncated value being delivered.
C4_PrecisionLossSignalled ==
    (pc = "loop" /\ engine = "add"
        /\ (RemainderDiscarded(x_start) \/ RemainderDiscarded(x_end)))
    => ("PrecisionLoss" \in signalled /\ serial = <<>>)

\* C5 (as claimed): when the antiderivative at x_end is below the one at
\* x_start, the addition engine reports Underflow and does not deliver the
\* wrapped difference.
C5_UnderflowSignalled ==
    (pc = "loop" /\ engine = "add" /\ Less(F_x_end, F_x_start))
    => ("Underflow" \in signalled /\ integral # sub32(F_x_end, F_x_start))

\* C6 (as claimed): when an intermediate product or the sum of the five terms
\* exceeds the 32-bit range, the addition engine reports Overflow instead of
\* delivering a wrapped result.
C6_OverflowSignalled ==
    (pc = "loop" /\ engine = "add"
        /\ ~(NoOverflowAntiderivative(x_start) /\ NoOverflowAntiderivative(x_end)))
    => ("Overflow" \in signalled /\ serial = <<>>)

\* C7: on a=1, b=2, c=3, d=4, e=5, x_start=0, x_end=10 the XOR engine does not
\* return 26250, and differs from what the addition engine returns there.
C7_XorDiverges ==
    (pc = "loop" /\ engine = "xor" /\ Defaults)
    => (integral # U32(26250) /\ integral # integratePolynomialAdd(x_start, x_end).w)

C7_Witness ==
    /\ pc = "loop" /\ engine = "xor" /\ Defaults
    /\ integral = U32(514)
    /\ integratePolynomialAdd(x_start, x_end).w = U32(26250)

\* C8: multiplyNLFSR(x, 0) = 0 and multiplyNLFSR(x, 1) = x, in the += and in
\* the ^= variant.
C8_ZeroAndOne ==
    pc = "multiplyNLFSR_done"
    => ((multiplier0 = Zero => ret = Zero) /\ (multiplier0 = One => ret = value))

C8_Witness ==
    /\ pc = "multiplyNLFSR_done" /\ engine = "xor"
    /\ multiplier0 = One /\ value = MaxWord /\ ret = MaxWord

\* C9: with addition, evaluatePolynomial(x) = a x^4 + b x^3 + c x^2 + d x + e
\* exactly whenever no nested product and no partial sum exceeds 2^32 - 1.
C9_PolynomialExact ==
    (pc = "evaluatePolynomial_done" /\ engine = "add" /\ NoOverflowPolynomial(arg_x))
    => BigOfWord(ret) = ExactPolynomial(arg_x)

C9_Witness ==
    /\ pc = "evaluatePolynomial_done" /\ engine = "add"
    /\ Coefs(DefaultCoefs) /\ arg_x = U32(10)
    /\ NoOverflowPolynomial(arg_x)
    /\ ret = U32(12345)

\* C10: the multiplyNLFSR loop terminates for every pair of inputs: every
\* iteration shifts the multiplier right, which strictly decreases it; while
\* the function runs it can always take its next step, and it leaves the loop
\* when the multiplier is zero, after exactly BitLength(multiplier) <= 32
\* iterations.  Hence an evaluatePolynomial call returns after at most 12 * 32
\* and an integratePolynomial call after at most 38 * 32 loop iterations.
C10_Terminates ==
    /\ [][MulIter => (multiplier' = shr1(multiplier) /\ Less(multiplier', multiplier))]_vars
    /\ [](pc = "while" => ENABLED (MulIter \/ MulReturn))
    /\ [](pc = "while" => (iters <= 32 /\ iters + BitLength(multiplier) = BitLength(multiplier0)))
    /\ [](pc = "multiplyNLFSR_done" =>
            (isZero(multiplier) /\ steps = BitLength(multiplier0) /\ steps <= 32))
    /\ [](pc = "evaluatePolynomial_done" => steps <= 12 * 32)
    /\ [](pc = "loop" => steps <= 38 * 32)

C10_Witness ==
    /\ pc = "multiplyNLFSR_done"
    /\ multiplier0 = MaxWord /\ iters = 32 /\ steps = 32

\* floor(((coef * x^k) mod 2^32) / dv): the uint32_t product, then divided
DividedProduct(coef, x, k, dv) ==
    BigDiv(BigOfWord(WordOfBig(ExactTerm(coef, x, k))), dv)

\* the five divided products summed as uint32_t
ProductsDividedSum(x) ==
    WordOfBig(BigAdd(BigAdd(BigAdd(BigAdd(DividedProduct(a, x, 5, 5),
                                          DividedProduct(b, x, 4, 4)),
                                   DividedProduct(c, x, 3, 3)),
                            DividedProduct(d, x, 2, 2)),
                     DividedProduct(e, x, 1, 1)))

\* C11: in the addition engine the division by 5, 4, 3, 2 is applied to the
\* product, never to the bare coefficient: each antiderivative value is the
\* sum of floor((coefficient * x^k) / divisor), the product taken as the
\* uint32_t it is (exact when nothing overflows); for a = 1 alone the x^5 term
\* at x = 10 is 20000.
C11_MultiplyThenDivide ==
    (pc = "loop" /\ engine = "add")
    => /\ F_x_start = ProductsDividedSum(x_start)
       /\ F_x_end = ProductsDividedSum(x_end)
       /\ (NoOverflowAntiderivative(x_end)
              => BigOfWord(F_x_end) = FlooredAntiderivative(x_end))
       /\ (Coefs(<<One, Zero, Zero, Zero, Zero>>) /\ x_end = U32(10)
              => F_x_end = U32(20000))

C11_Witness ==
    /\ pc = "loop" /\ engine = "add"
    /\ Coefs(<<One, Zero, Zero, Zero, Zero>>) /\ x_end = U32(10)
    /\ F_x_end = U32(20000) /\ div32(a, 5) = Zero

-----------------------------------------------------------------------------
\* the product formed with XOR alone: shifted copies of x folded with ^
carryless(x, y) == multiplyNLFSR("xor", x, y).w

\* the shift sketch's antiderivative with every product formed by XOR alone
ShiftXorOnly(x) ==
    LET fold[t \in Seq(Word)] == xor32(xor32(xor32(xor32(t[1], t[2]), t[3]), t[4]), t[5])
    IN  fold[<<carryless(multiplyNLFSRShift(div32(a, 5), 5).w, x),
               carryless(multiplyNLFSRShift(div32(b, 4), 4).w, x),
               carryless(multiplyNLFSRShift(div32(c, 3), 3).w, x),
               carryless(multiplyNLFSRShift(div32(d, 2), 2).w, x),
               carryless(multiplyNLFSRShift(e, 1).w, x)>>]

\* C12 (as claimed): one evaluation uses one combinator throughout.  The
\* "+"-folding sketch multiplies by addition and subtracts the bounds; every
\* "^"-folding sketch XORs the bounds and forms its products with XOR alone,
\* so no arithmetic product enters an XOR evaluation.
C12_SameCombinator ==
    pc = "loop"
    => CASE engine = "add" ->
              /\ integral = sub32(F_x_end, F_x_start)
              /\ F_x_end = ProductsDividedSum(x_end)
         [] engine = "xor" ->
              /\ integral = xor32(F_x_end, F_x_start)
              /\ F_x_end = evaluateAntiderivativeXor(x_end).w
         [] engine = "shift" ->
              /\ integral = xor32(F_x_end, F_x_start)
              /\ F_x_end = ShiftXorOnly(x_end)
              /\ F_x_start = ShiftXorOnly(x_start)

-----------------------------------------------------------------------------
\* what a first call of multiplyNLFSR returns on the arguments
FreshProduct(eng, v, m) ==
    MulLoop(eng, [result |-> Zero, current |-> v, multiplier |-> m], 0).w

\* C13: evaluation is stateless.  No step of any of the four functions writes
\* a, b, c, d, e, x_start or x_end, and what a call returns is what a first
\* call on the same arguments returns, whatever was evaluated before it: so
\* two calls with the same inputs return the same result.
C13_Stateless ==
    [][ /\ UNCHANGED <<a, b, c, d, e, x_start, x_end>>
        /\ (MulCall => (result' = Zero /\ current' = value /\ multiplier' = multiplier0))
        /\ (MulReturn => ret' = FreshProduct(engine, value, multiplier0))
        /\ (PolyCall => ret' = evaluatePolynomial(engine, arg_x).w)
        /\ (setup => integral' = integratePolynomial(engine, x_start, x_end).w) ]_vars

\* a second call is about to return a product of its own, with the value the
\* previous call returned and the coefficients of the sketch still in place
C13_Witness ==
    /\ pc = "while" /\ isZero(multiplier)
    /\ ~isZero(ret) /\ result # ret /\ ~isZero(result)
    /\ result = FreshProduct(engine, value, multiplier0)
    /\ Defaults

-----------------------------------------------------------------------------
(* The floating sketches: the exact antiderivative evaluated in doubles,   *)
(* and the trapezoidal rule.  Their a, b, c, d, e, x_start, x_end are      *)
(* doubles and their engine is the name of the backend.                    *)

\* largest interval count tried besides the configured one
MaxIntervals == 6

\* the interval count the trapezoid sketch is built with
ConfiguredIntervals == 1000

Backends == {"symbolic", "symbolicNLFSR", "trapezoid"}

\* the coefficients of the floating sketches as written
DefaultCoefsF == <<FromInt(1), FromInt(2), FromInt(3), FromInt(4), FromInt(5)>>

\* coefficient vectors <<a, b, c, d, e>> tried on the floating sketches
CoefVectorsF ==
    {DefaultCoefsF,
     <<FromInt(5), FromInt(4), FromInt(3), FromInt(2), FromInt(1)>>,
     <<FromInt(1), FZero, FZero, FZero, FZero>>,
     <<FZero, FZero, FZero, FromInt(1), FZero>>,
     <<FZero, FZero, FZero, FZero, FromInt(1)>>,
     <<FromInt(20), FZero, FromInt(0 - 39), FZero, FZero>>}

\* bounds tried on the floating sketches
LowerBoundsF == {FZero, FromInt(1)}
UpperBoundsF == {FromInt(1), FromInt(2), FromInt(10)}

DefaultsF ==
    /\ Coefs(DefaultCoefsF)
    /\ x_start = FZero /\ x_end = FromInt(10)

\* polynomial(x) = a * pow(x, 4) + b * pow(x, 3) + c * pow(x, 2) + d * x + e
polynomial(x) ==
    fadd[fadd[fadd[fadd[fmul[a, pow[x, 4]], fmul[b, pow[x, 3]]],
                   fmul[c, pow[x, 2]]], fmul[d, x]], e]

\* an antiderivative whose a / 5, b / 4, c / 3, d / 2 were integer divisions
polynomialAntiderivative_intDivision(x0) ==
    LET whole[v \in Number, k \in Nat] ==
            IF BigBitLen(v.m) + v.e <= 0 THEN FZero
            ELSE Round[[neg |-> v.neg,
                        m |-> BigDiv(IF v.e >= 0 THEN BigShl(v.m, v.e)
                                     ELSE BigShr(v.m, 0 - v.e), k),
                        e |-> 0]]
        F[x \in Number] ==
            fadd[fadd[fadd[fadd[fmul[whole[a, 5], pow[x, 5]], fmul[whole[b, 4], pow[x, 4]]],
                           fmul[whole[c, 3], pow[x, 3]]], fmul[whole[d, 2], pow[x, 2]]],
                 fmul[e, x]]
    IN  F[x0]

\* polynomialAntiderivative(x): term1 + term2 + term3 + term4 + term5
polynomialAntiderivative(x) ==
    fadd[fadd[fadd[fadd[fmul[fdiv[a, 5], pow[x, 5]], fmul[fdiv[b, 4], pow[x, 4]]],
                   fmul[fdiv[c, 3], pow[x, 3]]], fmul[fdiv[d, 2], pow[x, 2]]],
         fmul[e, x]]

\* symbolicIntegration(x_start, x_end)
symbolicIntegration(x0, x1) ==
    LET return[Fs \in Number, Fe \in Number] ==
            [F_x_start |-> Fs, F_x_end |-> Fe, w |-> fsub[Fe, Fs]]
    IN  return[polynomialAntiderivative(x0), polynomialAntiderivative(x1)]

\* antiderivativeNLFSR(x) of the sketch in doubles
antiderivativeNLFSR_double(x) ==
    fadd[fadd[fadd[fadd[fmul[fdiv[a, 5], pow[x, 5]], fmul[fdiv[b, 4], pow[x, 4]]],
                   fmul[fdiv[c, 3], pow[x, 3]]], fmul[fdiv[d, 2], pow[x, 2]]],
         fmul[e, x]]

\* symbolicIntegrationNLFSR(x_start, x_end) of the sketch in doubles
symbolicIntegrationNLFSR_double(x0, x1) ==
    LET return[Fs \in Number, Fe \in Number] ==
            [F_x_start |-> Fs, F_x_end |-> Fe, w |-> fsub[Fe, Fs]]
    IN  return[antiderivativeNLFSR_double(x0), antiderivativeNLFSR_double(x1)]

\* the locals of trapezoidalIntegration when the for loop is reached
trapezoidEntry(x0, x1, n) ==
    [h        |-> fdiv[fsub[x1, x0], n],
     integral |-> fadd[fadd[FZero, fdiv[polynomial(x0), 2]], fdiv[polynomial(x1), 2]],
     i        |-> 1]

\* a for loop that ran while i <= num_intervals
forCondition_inclusive(i, n) == i <= n

\* i < num_intervals
forCondition(i, n) == i < n

\* a for loop whose abscissa were i * h, without x_start
trapezoidBody_fromZero(x0, loc) ==
    [h        |-> loc.h,
     integral |-> fadd[loc.integral, polynomial(fmul[FromInt(loc.i), loc.h])],
     i        |-> loc.i + 1]

\* one turn of the for loop: x = x_start + i * h; integral += polynomial(x); i++
trapezoidBody(x0, loc) ==
    [h        |-> loc.h,
     integral |-> fadd[loc.integral, polynomial(fadd[x0, fmul[FromInt(loc.i), loc.h]])],
     i        |-> loc.i + 1]

\* trapezoidalIntegration(x_start, x_end, num_intervals) as one call
trapezoidalIntegration(x0, x1, n) ==
    LET for[loc \in [h : Number, integral : Number, i : Nat]] ==
            IF forCondition(loc.i, n) THEN for[trapezoidBody(x0, loc)]
            ELSE fmul[loc.integral, loc.h]
    IN  for[trapezoidEntry(x0, x1, n)]

InitFloat ==
    /\ engine \in Backends
    /\ pc = "setup"
    /\ \E v \in CoefVectorsF : Coefs(v)
    /\ x_start \in LowerBoundsF /\ x_end \in UpperBoundsF
    /\ num_intervals \in IF engine # "trapezoid" THEN {0}
                         ELSE IF DefaultsF THEN 1..MaxIntervals \cup {ConfiguredIntervals}
                         ELSE 1..MaxIntervals
    /\ h = FZero /\ for_i = 0 /\ taps = <<>>
    /\ F_x_start = FZero /\ F_x_end = FZero /\ integral = FZero /\ ret = FZero
    /\ value = Zero /\ multiplier0 = Zero /\ arg_x = Zero
    /\ result = Zero /\ current = Zero /\ multiplier = Zero /\ iters = 0
    /\ steps = 0 /\ serial = <<>> /\ signalled = {}

\* setup() of the antiderivative sketches: integrate and print with 6 decimals
setupSymbolic ==
    /\ pc = "setup"
    /\ engine \in {"symbolic", "symbolicNLFSR"}
    /\ \E r \in {IF engine = "symbolic" THEN symbolicIntegration(x_start, x_end)
                 ELSE symbolicIntegrationNLFSR_double(x_start, x_end)} :
           /\ F_x_start' = r.F_x_start
           /\ F_x_end' = r.F_x_end
           /\ integral' = r.w
           /\ ret' = r.w
           /\ serial' = Append(serial, [number |-> r.w, digits |-> 6])
    /\ pc' = "loop"
    /\ UNCHANGED <<a, b, c, d, e, x_start, x_end, engine, value, multiplier0, arg_x,
                   result, current, multiplier, iters, steps, signalled,
                   num_intervals, h, for_i, taps>>

\* setup() of the trapezoid sketch calls trapezoidalIntegration, which runs
\* up to its for loop
trapezoidCall ==
    /\ pc = "setup"
    /\ engine = "trapezoid"
    /\ \E loc \in {trapezoidEntry(x_start, x_end, num_intervals)} :
           h' = loc.h /\ integral' = loc.integral /\ for_i' = loc.i
    /\ steps' = 0
    /\ pc' = "for"
    /\ UNCHANGED <<a, b, c, d, e, x_start, x_end, engine, value, multiplier0, arg_x,
                   result, current, multiplier, iters, ret, F_x_start, F_x_end,
                   serial, signalled, num_intervals, taps>>

\* one turn of the for loop
trapezoidIter ==
    /\ pc = "for"
    /\ forCondition(for_i, num_intervals)
    /\ \E loc \in {trapezoidBody(x_start, [h |-> h, integral |-> integral, i |-> for_i])} :
           integral' = loc.integral /\ for_i' = loc.i
    /\ steps' = steps + 1
    /\ UNCHANGED <<a, b, c, d, e, x_start, x_end, engine, pc, value, multiplier0, arg_x,
                   result, current, multiplier, iters, ret, F_x_start, F_x_end,
                   serial, signalled, num_intervals, h, taps>>

\* the for loop is left: integral *= h, return, and setup() prints
trapezoidReturn ==
    /\ pc = "for"
    /\ ~forCondition(for_i, num_intervals)
    /\ \E r \in {fmul[integral, h]} :
           /\ integral' = r
           /\ ret' = r
           /\ serial' = Append(serial, [number |-> r, digits |-> 6])
    /\ pc' = "loop"
    /\ UNCHANGED <<a, b, c, d, e, x_start, x_end, engine, value, multiplier0, arg_x,
                   result, current, multiplier, iters, F_x_start, F_x_end,
                   steps, signalled, num_intervals, h, for_i, taps>>

NextFloat == setupSymbolic \/ trapezoidCall \/ trapezoidIter \/ trapezoidReturn \/ loop

SpecFloat == InitFloat /\ [][NextFloat]_vars

-----------------------------------------------------------------------------
(* Exact values the floating sketches are compared with *)

\* x^k, exactly
xpow(x, k) == [neg |-> x.neg /\ (k % 2 = 1), m |-> BigPow(x.m, k), e |-> x.e * k]

\* x = y as numbers
xeq(x, y) == xsub(x, y).m = <<>>

\* 60 * (F(x1) - F(x0)) for F = a x^5 / 5 + b x^4 / 4 + c x^3 / 3 + d x^2 / 2 + e x
SixtyIntegral(x0, x1) ==
    LET span[k \in Nat] == xsub(xpow(x1, k), xpow(x0, k))
        sum[t \in Seq(Number)] == xadd[xadd[xadd[xadd[t[1], t[2]], t[3]], t[4]], t[5]]
    IN  sum[<<xmul[xmul[FromInt(12), a], span[5]], xmul[xmul[FromInt(15), b], span[4]],
              xmul[xmul[FromInt(20), c], span[3]], xmul[xmul[FromInt(30), d], span[2]],
              xmul[xmul[FromInt(60), e], span[1]]>>]

\* 60 * |v - (F(x_end) - F(x_start))|
SixtyError(v) == xabs(xsub(xmul[FromInt(60), v], SixtyIntegral(x_start, x_end)))

\* |x - y| <= 1e-6
WithinMillionth(x, y) == xleq(xmul[xabs(xsub(x, y)), FromInt(1000000)], FromInt(1))

\* C14: with a=1, b=2, c=3, d=4, e=5, x_start=0, x_end=10 the exact
\* antiderivative evaluated in doubles, F(x_end) - F(x_start), is within 1e-6
\* of 26250, which is the integral in rational arithmetic.
C14_SymbolicFixture ==
    (pc = "loop" /\ engine \in {"symbolic", "symbolicNLFSR"} /\ DefaultsF)
    => /\ WithinMillionth(integral, FromInt(26250))
       /\ integral = fsub[F_x_end, F_x_start]
       /\ xeq(SixtyIntegral(x_start, x_end), FromInt(60 * 26250))

C14_Witness ==
    /\ pc = "loop" /\ engine = "symbolic" /\ DefaultsF
    /\ F_x_start = FZero /\ F_x_end = FromInt(26250)
    /\ serial = <<[number |-> FromInt(26250), digits |-> 6]>>

\* C15 (as claimed): with a=1, b=2, c=3, d=4, e=5, x_start=0, x_end=10 and
\* num_intervals = 1000 the trapezoidal sketch returns a value within 1e-6 of
\* 26250.
C15_TrapezoidFixture ==
    (pc = "loop" /\ engine = "trapezoid" /\ DefaultsF
        /\ num_intervals = ConfiguredIntervals)
    => WithinMillionth(integral, FromInt(26250))

-----------------------------------------------------------------------------
\* 60 * the absolute error of trapezoidalIntegration with n intervals
SixtyErrorWith(n) == SixtyError(trapezoidalIntegration(x_start, x_end, n))

\* x <= y + 1e-9 / 60
LeqWithinNoise(x, y) ==
    xleq(xmul[x, FromInt(1000000000)], xadd[xmul[y, FromInt(1000000000)], FromInt(60)])

\* no coefficient is negative and 0 <= x_start <= x_end
NonNegative ==
    /\ \A v \in {a, b, c, d, e, x_start} : xleq(FZero, v)
    /\ xleq(x_start, x_end)

-----------------------------------------------------------------------------
\* h * (f(x_start)/2 + f(x_end)/2 + sum of f(x_start + k * h) for k = 1..n-1)
\* with h = (x_end - x_start) / n, summed in that order in doubles
TrapezoidFormula(n) ==
    LET width == fdiv[fsub[x_end, x_start], n]
        sum[k \in 0..(n - 1)] ==
            IF k = 0
            THEN fadd[fdiv[polynomial(x_start), 2], fdiv[polynomial(x_end), 2]]
            ELSE fadd[sum[k - 1], polynomial(fadd[x_start, fmul[FromInt(k), width]])]
    IN  fmul[width, sum[n - 1]]

\* C17: for every n >= 1 trapezoidalIntegration(x_start, x_end, n) returns
\* h * (f(x_start)/2 + f(x_end)/2 + sum of f(x_start + i*h), i = 1..n-1) with
\* h = (x_end - x_start)/n; the for loop runs exactly n - 1 times, none for
\* n = 1, each turn adding one f(x_start + i*h) and stepping i, and then ends.
\* The sums are compared for the counts up to MaxIntervals, the number of
\* turns for the configured count as well.
C17_TrapezoidFormula ==
    /\ [](pc = "for" =>
            /\ num_intervals >= 1
            /\ for_i = steps + 1 /\ for_i <= num_intervals
            /\ h = fdiv[fsub[x_end, x_start], num_intervals]
            /\ (num_intervals <= MaxIntervals => ENABLED (trapezoidIter \/ trapezoidReturn)))
    /\ [][trapezoidIter =>
            /\ for_i < num_intervals
            /\ for_i' = for_i + 1
            /\ (num_intervals <= MaxIntervals =>
                    integral' = fadd[integral,
                                     polynomial(fadd[x_start, fmul[FromInt(for_i), h]])])]_vars
    /\ [][trapezoidReturn => (for_i = num_intervals /\ integral' = fmul[h, integral])]_vars
    /\ [](pc = "loop" /\ engine = "trapezoid" =>
            /\ steps = num_intervals - 1
            /\ (num_intervals = 1 => steps = 0)
            /\ (num_intervals <= MaxIntervals => integral = TrapezoidFormula(num_intervals))
            /\ ret = integral)

C17_Witness ==
    /\ pc = "loop" /\ engine = "trapezoid" /\ DefaultsF
    /\ num_intervals = MaxIntervals /\ steps = MaxIntervals - 1
    /\ integral = TrapezoidFormula(MaxIntervals)
    /\ integral # TrapezoidFormula(MaxIntervals - 1)

-----------------------------------------------------------------------------
\* x * y mod 2^32 for two uint32_t, from the exact product
ProductMod(x, y) == WordOfBig(BigMul(BigOfWord(x), BigOfWord(y)))

\* bit k of a uint32_t
BitOf(w, k) == Digit(BigShr(BigOfWord(w), k), 1) % 2

\* w << k as a uint32_t
ShiftedLeft(w, k) == WordOfBig(BigShl(BigOfWord(w), k))

\* C18: in the addition engine, at the start of every iteration of the
\* multiplyNLFSR loop, and when the loop is left,
\* result + current * multiplier = value * multiplier0 (mod 2^32); iteration i
\* adds value << i to result exactly when bit i of the original multiplier is set.
C18_LoopInvariant ==
    /\ [](pc = "while" /\ engine = "add" =>
            /\ add32(result, ProductMod(current, multiplier)) = ProductMod(value, multiplier0)
            /\ current = ShiftedLeft(value, iters))
    /\ [][MulIter /\ engine = "add" =>
            result' = IF BitOf(multiplier0, iters) = 1
                      THEN add32(result, ShiftedLeft(value, iters))
                      ELSE result]_vars

\* 65537 * (2^32 - 1) under way: some shifted copies added, result already
\* wrapped past 2^32, bits of the multiplier still to come
C18_Witness ==
    /\ pc = "while" /\ engine = "add"
    /\ value = U32(65537) /\ multiplier0 = MaxWord
    /\ iters = 20 /\ ~isZero(multiplier)
    /\ Less(result, current)
    /\ add32(result, ProductMod(current, multiplier)) = ProductMod(value, multiplier0)

-----------------------------------------------------------------------------
\* at most one bit of the uint32_t is set
AtMostOneBit(w) == isZero(w) \/ \E k \in 0..31 : w = ShiftedLeft(One, k)

\* C19: the XOR-accumulating multiplyNLFSR is not the integer product: 3 and 3
\* give 5, not 9, although 9 < 2^32; it returns the product whenever the
\* multiplier has at most one bit set.
C19_XorNotProduct ==
    (pc = "multiplyNLFSR_done" /\ engine = "xor")
    => /\ (value = U32(3) /\ multiplier0 = U32(3)
             => (ret = U32(5) /\ ret # ProductMod(value, multiplier0)
                 /\ FitsWord(BigMul(BigOfWord(value), BigOfWord(multiplier0)))))
       /\ (AtMostOneBit(multiplier0) => ret = ProductMod(value, multiplier0))

C19_Witness ==
    /\ pc = "multiplyNLFSR_done" /\ engine = "xor"
    /\ value = U32(3) /\ multiplier0 = U32(3)
    /\ ret = U32(5) /\ ProductMod(value, multiplier0) = U32(9)

-----------------------------------------------------------------------------
\* C20 (as claimed): in the XOR engine the XOR of the two antiderivative
\* evaluations is their arithmetic difference: for all bounds,
\* F_x_end ^ F_x_start = F_x_end - F_x_start.
C20_XorIsSubtraction ==
    (pc = "loop" /\ engine = "xor")
    => /\ integral = xor32(F_x_end, F_x_start)
       /\ xor32(F_x_end, F_x_start) = sub32(F_x_end, F_x_start)

-----------------------------------------------------------------------------
(* The divide-first terms, one at a time *)

\* multiplyNLFSR(x, multiplyNLFSR(x, ... multiplyNLFSR(x, 1))) with k factors x
powerChain(eng, x, k) ==
    LET chain[j \in Nat] == IF j = 0 THEN Lit(One) ELSE Nest(eng, x, chain[j - 1])
    IN  chain[k]

\* multiplyNLFSR(coef / dv, <x to the k by nested calls>) of the XOR sketch
divideFirstTerm(coef, dv, x, k) == Nest("xor", div32(coef, dv), powerChain("xor", x, k)).w

\* multiplyNLFSR(coef / dv, k) * x of the shift sketch
divideFirstTermShift(coef, dv, x, k) == timesX(multiplyNLFSRShift(div32(coef, dv), k), x).w

\* the low three terms of the antiderivative of a divide-first sketch, folded
LowTerms(eng, x) ==
    IF eng = "xor"
    THEN xor32(xor32(divideFirstTerm(c, 3, x, 3), divideFirstTerm(d, 2, x, 2)),
               multiplyNLFSR("xor", e, x).w)
    ELSE xor32(xor32(divideFirstTermShift(c, 3, x, 3), divideFirstTermShift(d, 2, x, 2)),
               timesX(multiplyNLFSRShift(e, 1), x).w)

\* C21: in the sketches that divide the coefficient before the multiply, a
\* coefficient below its divisor gives a zero term at both bounds, and with
\* a < 5 and b < 4 the evaluations at the bounds and the integral are those of
\* the three low terms alone, whatever a and b are.
C21_DivideFirstZeroTerm ==
    (pc = "loop" /\ engine \in {"xor", "shift"})
    => /\ \A x \in {x_start, x_end} :
            /\ Less(a, U32(5)) => /\ divideFirstTerm(a, 5, x, 5) = Zero
                                  /\ divideFirstTermShift(a, 5, x, 5) = Zero
            /\ Less(b, U32(4)) => /\ divideFirstTerm(b, 4, x, 4) = Zero
                                  /\ divideFirstTermShift(b, 4, x, 4) = Zero
            /\ Less(c, U32(3)) => /\ divideFirstTerm(c, 3, x, 3) = Zero
                                  /\ divideFirstTermShift(c, 3, x, 3) = Zero
            /\ Less(d, U32(2)) => /\ divideFirstTerm(d, 2, x, 2) = Zero
                                  /\ divideFirstTermShift(d, 2, x, 2) = Zero
       /\ (Less(a, U32(5)) /\ Less(b, U32(4)))
            => /\ F_x_start = LowTerms(engine, x_start)
               /\ F_x_end = LowTerms(engine, x_end)
               /\ integral = xor32(LowTerms(engine, x_end), LowTerms(engine, x_start))

\* the XOR sketch as written has run: a = 1 and b = 2 are below their divisors
\* and the evaluation at the upper bound is that of the low terms, not zero
C21_Witness ==
    /\ pc = "loop" /\ engine = "xor" /\ Defaults
    /\ divideFirstTerm(a, 5, x_end, 5) = Zero
    /\ F_x_end = LowTerms("xor", x_end)
    /\ F_x_end # Zero

\* the term multiplyNLFSR(coef, k) * x of polynomialNLFSR
shiftTerm(coef, k, x) == timesX(multiplyNLFSRShift(coef, k), x).w

\* C22: in the shift sketch, once polynomialNLFSR(x) has returned, its terms
\* multiplyNLFSR(a, 4) * x, multiplyNLFSR(b, 3) * x, multiplyNLFSR(c, 2) * x and
\* multiplyNLFSR(d, 1) * x are a x^4, b x^3, c x^2 and d x modulo 2^32.
C22_ShiftTermsArePowers ==
    (pc = "evaluatePolynomial_done" /\ engine = "shift")
    => /\ shiftTerm(a, 4, arg_x) = WordOfBig(ExactTerm(a, arg_x, 4))
       /\ shiftTerm(b, 3, arg_x) = WordOfBig(ExactTerm(b, arg_x, 3))
       /\ shiftTerm(c, 2, arg_x) = WordOfBig(ExactTerm(c, arg_x, 2))
       /\ shiftTerm(d, 1, arg_x) = WordOfBig(ExactTerm(d, arg_x, 1))
       /\ ret = xor32(xor32(xor32(xor32(shiftTerm(a, 4, arg_x), shiftTerm(b, 3, arg_x)),
                                  shiftTerm(c, 2, arg_x)), shiftTerm(d, 1, arg_x)), e)

-----------------------------------------------------------------------------
(* The corrected sketch rebuilt with another taps array *)

\* tap arrays the corrected sketch is built with
TapConfigs == {DefaultTaps, <<31>>, <<1, 0>>, <<30, 7, 2>>}

\* The sketch is built again with another taps array and the same call is
\* made again, on the same coefficients, bounds and arguments.  What the
\* build before returned and printed stays in place, to be compared with.
Retap ==
    /\ engine = "add" /\ taps = DefaultTaps
    /\ pc \in {"loop", "multiplyNLFSR_done", "evaluatePolynomial_done"}
    /\ taps' \in TapConfigs \ {DefaultTaps}
    /\ pc' = CASE pc = "loop" -> "setup"
               [] pc = "multiplyNLFSR_done" -> "multiplyNLFSR"
               [] pc = "evaluatePolynomial_done" -> "evaluatePolynomial"
    /\ UNCHANGED <<a, b, c, d, e, x_start, x_end, engine, value, multiplier0, arg_x,
                   result, current, multiplier, iters, ret, F_x_start, F_x_end,
                   integral, steps, serial, signalled, num_intervals, h, for_i>>

NextTaps == MulCall \/ MulIter \/ MulReturn \/ PolyCall \/ setup \/ loop \/ Retap

SpecTaps == Init /\ [][NextTaps]_vars

\* C23: no step of multiplyNLFSR, evaluatePolynomial, evaluateAntiderivative
\* or integratePolynomial changes the taps, and the sketch built with another
\* taps array returns from each of these calls what it returned with the taps
\* as written: the same product after the same iterations, the same polynomial
\* value, the same evaluations at both bounds, the same integral, printed again.
Rebuilt == engine = "add" /\ taps # DefaultTaps

Mod32(n) == BigOfWord(WordOfBig(n))

\* floor of ((coef * x^k) mod 2^32) / dv
WrappedDividedTerm(coef, x, k, dv) == BigDiv(Mod32(ExactTerm(coef, x, k)), dv)

\* the antiderivative of the addition engine with every product and the sum
\* of the terms reduced modulo 2^32
WrappedAntiderivative(x) ==
    WordOfBig(BigAdd(BigAdd(BigAdd(BigAdd(WrappedDividedTerm(a, x, 5, 5),
                                          WrappedDividedTerm(b, x, 4, 4)),
                                   WrappedDividedTerm(c, x, 3, 3)),
                            WrappedDividedTerm(d, x, 2, 2)),
                     Mod32(ExactTerm(e, x, 1))))

\* (p - q) mod 2^32
WrappedDifference(p, q) ==
    WordOfBig(BigSub(BigAdd(BigOfWord(p), BigShl(<<1>>, 32)), BigOfWord(q)))

\* C24: in the addition engine, for all uint32_t arguments, those whose
\* product overflows included, multiplyNLFSR(p, q) returns p * q mod 2^32,
\* evaluatePolynomial returns the polynomial mod 2^32, evaluateAntiderivative
\* the sum mod 2^32 of its terms (each a product mod 2^32, divided), and
\* integratePolynomial the difference mod 2^32: nothing traps or saturates.
C24_WrapsModulo ==
    /\ (pc = "multiplyNLFSR_done" /\ engine = "add")
         => ret = ProductMod(value, multiplier0)
    /\ (pc = "evaluatePolynomial_done" /\ engine = "add")
         => ret = WordOfBig(ExactPolynomial(arg_x))
    /\ (pc = "loop" /\ engine = "add")
         => /\ F_x_start = WrappedAntiderivative(x_start)
            /\ F_x_end = WrappedAntiderivative(x_end)
            /\ integral = WrappedDifference(F_x_end, F_x_start)

\* (2^32 - 1) * (2^32 - 1) has been multiplied: the product overflows and the
\* call returned 1
C24_Witness ==
    /\ pc = "multiplyNLFSR_done" /\ engine = "add"
    /\ value = MaxWord /\ multiplier0 = MaxWord
    /\ ~FitsWord(BigMul(BigOfWord(value), BigOfWord(multiplier0)))
    /\ ret = One

\* |x - y| on naturals
AbsDiff(x, y) == IF BigLess(x, y) THEN BigSub(y, x) ELSE BigSub(x, y)

\* 60 * w for a uint32_t w
Sixty(w) == BigMulSmall(BigOfWord(w), 60)

\* 0 <= F(x) - v < 4 for a uint32_t v, F the exact rational antiderivative
ShortByLessThanFour(v, x) ==
    /\ BigLeq(Sixty(v), SixtyF(x))
    /\ BigLess(SixtyF(x), BigAdd(Sixty(v), BigOfNat(240)))

\* |(p - q) - (F(x1) - F(x0))| < 4 for uint32_t p and q
DifferenceWithinFour(p, q, x0, x1) ==
    BigLess(AbsDiff(BigAdd(Sixty(p), SixtyF(x0)), BigAdd(Sixty(q), SixtyF(x1))),
            BigOfNat(240))

NoOverflowAtBounds ==
    NoOverflowAntiderivative(x_start) /\ NoOverflowAntiderivative(x_end)

C26_SubtractionNeverWraps ==
    (pc = "loop" /\ engine = "add" /\ ~Less(x_end, x_start) /\ NoOverflowAtBounds)
    => /\ ~Less(F_x_end, F_x_start)
       /\ BigAdd(BigOfWord(integral), BigOfWord(F_x_start)) = BigOfWord(F_x_end)

\* an integral over distinct bounds, neither evaluation zero, came out as
\* the positive difference
C26_Witness ==
    /\ pc = "loop" /\ engine = "add" /\ NoOverflowAtBounds
    /\ Less(x_start, x_end)
    /\ ~isZero(F_x_start) /\ Less(F_x_start, F_x_end)
    /\ integral = sub32(F_x_end, F_x_start) /\ Less(integral, F_x_end)

\* C27: integrating over an empty interval gives zero in both engines, for
\* every bound and every coefficient set, also when the evaluations overflow;
\* and evaluateAntiderivative(0) = 0, so that an integral from 0 is the
\* evaluation at the upper bound.
C27_EmptyInterval ==
    (pc = "loop" /\ engine \in Engines)
    => /\ x_start = x_end => (F_x_start = F_x_end /\ isZero(integral))
       /\ isZero(x_start) => (isZero(F_x_start) /\ integral = F_x_end)

\* the XOR engine has integrated from 100 to 100 with every coefficient
\* 2^32 - 1: the evaluation overflowed and is not zero, the integral is zero
C27_Witness ==
    /\ pc = "loop" /\ engine = "xor"
    /\ Coefs(<<MaxWord, MaxWord, MaxWord, MaxWord, MaxWord>>)
    /\ x_start = U32(100) /\ x_end = U32(100)
    /\ ~isZero(F_x_end) /\ isZero(integral)

\* C28: with the bounds swapped the XOR engine returns the same integral, and
\* the addition engine one that sums with the first to 0 modulo 2^32.
C28_SwappedBounds ==
    /\ (pc = "loop" /\ engine = "xor")
         => integral = integratePolynomialXor(x_end, x_start).w
    /\ (pc = "loop" /\ engine = "add")
         => add32(integral, integratePolynomialAdd(x_end, x_start).w) = Zero

\* the XOR engine has integrated between distinct bounds and the integral,
\* not zero, is the one of the swapped bounds
C28_Witness ==
    /\ pc = "loop" /\ engine = "xor"
    /\ Less(x_end, x_start)
    /\ ~isZero(integral)
    /\ integral = integratePolynomialXor(x_end, x_start).w

\* what Serial.println writes for the integral: the integer, or the double
\* with 6 decimals
Printed == IF engine \in Backends THEN [number |-> integral, digits |-> 6] ELSE integral

\* evaluateAntiderivative(x) of the sketch built
AntiderivativeOf(eng, x) ==
    CASE eng = "add"   -> evaluateAntiderivativeAdd(x).w
      [] eng = "xor"   -> evaluateAntiderivativeXor(x).w
      [] eng = "shift" -> antiderivativeNLFSR(x).w

\* C29: in a run of a sketch nothing is printed before setup() has integrated;
\* setup() evaluates the antiderivative at both bounds, combines the two
\* values into the integral and prints it, once; the only step that prints is
\* the one that ends setup(); and from then on loop() changes nothing and
\* prints nothing.
C29_EmittedOnce ==
    /\ [](pc # "loop" => serial = <<>>)
    /\ [](pc = "loop" => serial = <<Printed>>)
    /\ [][(serial' # serial) => (pc \in {"setup", "for"} /\ pc' = "loop")]_vars
    /\ [][(pc = "setup" /\ engine \in Sketches)
            => /\ pc' = "loop"
               /\ F_x_start' = AntiderivativeOf(engine, x_start)
               /\ F_x_end' = AntiderivativeOf(engine, x_end)
               /\ integral' = IF engine = "add" THEN sub32(F_x_end', F_x_start')
                              ELSE xor32(F_x_end', F_x_start')
               /\ serial' = <<integral'>>]_vars
    /\ [][pc = "loop" => UNCHANGED vars]_vars
    /\ [](pc = "loop" => ENABLED loop)

\* setup() has integrated between 1 and 10 and printed the integral, which
\* is the difference of two evaluations that are not zero
C29_Witness ==
    /\ pc = "loop" /\ engine = "add" /\ Coefs(DefaultCoefs)
    /\ x_start = U32(1) /\ x_end = U32(10)
    /\ ~isZero(F_x_start) /\ integral = sub32(F_x_end, F_x_start)
    /\ serial = <<integral>>

====
